---- MODULE Spec2Model ----
(***************************************************************************)
(* Model of the IP geolocation service: the PostgreSQL-backed repository   *)
(* (IpGeolocationRepositoryImpl), the application service                  *)
(* (GeolocationApplicationService), the ipstack lookup client, the HTTP    *)
(* endpoints with their domain validator, and the calls they make on the   *)
(* database and on the external lookup service.  Every call of a public    *)
(* operation is one entry of Calls; a call advances one await at a time,   *)
(* so calls interleave exactly where the coroutines can.                   *)
(***************************************************************************)
EXTENDS Integers, Sequences, FiniteSets, TLC

\* ------------------------------------------------------------- bounds
MaxOps == 3
MaxConc == 2
MaxProbes == 2

Calls == 1..MaxOps

\* The ip addresses and the canonical domains that callers and the provider name
IpOrder == <<"ip1", "ip2">>
DomainOrder == <<"d1", "d2">>
Ips == {IpOrder[i] : i \in DOMAIN IpOrder}
Domains == {DomainOrder[i] : i \in DOMAIN DomainOrder}

\* SQL NULL / Python None in a scalar column or field
NULL == "NULL"

\* ------------------------------------------------------------- data model
LocationFields ==
  {"latitude", "longitude", "city", "region", "country", "continent", "postal_code"}

MutableFields == LocationFields \cup {"url"}

ModelFields == MutableFields \cup {"ip", "created_at", "updated_at"}

Columns == ModelFields \cup {"id"}

\* The pydantic entity: every field, plus the set of fields given explicitly
\* at construction (pydantic's model_fields_set).  created_at and updated_at
\* default to the time of construction.
Geolocation(ip, url, k, given, now) ==
  [f \in ModelFields \cup {"fields_set"} |->
     CASE f = "ip" -> ip
       [] f = "url" -> url
       [] f = "created_at" -> now
       [] f = "updated_at" -> now
       [] f = "fields_set" -> given
       [] OTHER -> <<f, k>>]

\* Python None where a Geolocation is expected
None == [none |-> TRUE]

\* The fields a caller of the lookup client or a test helper gives explicitly
AllGiven == MutableFields \cup {"ip"}
LookupGiven == LocationFields \cup {"ip"}

model_dump_defaults(d) ==
  [f \in ModelFields |-> IF f \in LocationFields THEN <<f, 0>> ELSE d[f]]

\* ip_data.model_dump()
model_dump(d) == [f \in ModelFields |-> d[f]]

\* ip_data.model_dump(exclude_unset=True)
model_dump_exclude_unset(d) == [f \in d.fields_set |-> d[f]]

model_validate_defaults(row) ==
  [f \in ModelFields \cup {"fields_set"} |->
     CASE f = "fields_set" -> ModelFields
       [] f \in LocationFields -> <<f, 0>>
       [] OTHER -> row[f]]

\* Geolocation.model_validate(db_obj, from_attributes=True)
model_validate(row) ==
  [f \in ModelFields \cup {"fields_set"} |->
     IF f = "fields_set" THEN ModelFields ELSE row[f]]

\* ------------------------------------------------------------- exceptions
CONNECTION_ERRORS ==
  {"PostgresError", "gaierror", "ConnectionRefusedError", "TimeoutError",
   "OSError", "OperationalError", "IntegrityError"}

\* What a statement raises on a failing connection: a wrapped driver error,
\* a raw socket error, or an error of no listed class (one of them for the
\* whole outage).
DriverErrors == {"OperationalError", "ConnectionRefusedError", "Exception"}

\* ------------------------------------------------------------- state
VARIABLES
  rows,        \* committed rows of table ip_geolocation
  clock,       \* datetime.now(UTC)
  db,          \* "up" | "closed" (engine is None) | "failing"
  raises,      \* the exception a statement raises while the db is failing
  pending,     \* per call: the uncommitted writes of its session
  started,     \* number of calls made so far
  op,          \* per call: the public operation called
  pc,          \* per call: the await it stands at
  req,         \* per call: the ip / url argument
  ip_data,     \* per call: the Geolocation passed in or looked up
  existing,    \* per call: the ORM object loaded or added in the session
  result,      \* per call: what the caller got
  hist         \* per call: history (what the call did), for the properties

vars ==
  <<rows, clock, db, raises, pending, started, op, pc, req, ip_data, existing,
    result, hist>>

NoTxn == [locks |-> {}, del |-> {}, put |-> {}]

NoResult == [status |-> "none", exc |-> "", value |-> None, outcome |-> ""]

Ok(value, outcome) ==
  [status |-> "ok", exc |-> "", value |-> value, outcome |-> outcome]

Raised(exc) ==
  [status |-> "error", exc |-> exc, value |-> None, outcome |-> ""]

NoHist ==
  [inflight |-> {}, dbAtStart |-> "up", lookups |-> 0, lookup |-> "",
   writes |-> 0, existed |-> FALSE, via |-> ""]

Init ==
  /\ rows = {}
  /\ clock = 1
  /\ db = "up"
  /\ raises = ""
  /\ pending = [k \in Calls |-> NoTxn]
  /\ started = 0
  /\ op = [k \in Calls |-> "none"]
  /\ pc = [k \in Calls |-> "idle"]
  /\ req = [k \in Calls |-> [ip |-> NULL, url |-> NULL]]
  /\ ip_data = [k \in Calls |-> None]
  /\ existing = [k \in Calls |-> None]
  /\ result = [k \in Calls |-> NoResult]
  /\ hist = [k \in Calls |-> NoHist]

\* ------------------------------------------------------------- database
\* select(IpGeolocation).where(IpGeolocation.ip == ip)
RowsWithIp(ip) == {r \in rows : r.ip = ip}

RowsWithUrlOrNull(url) == {r \in rows : r.url \in {url, NULL}}

\* select / delete ... where(IpGeolocation.url == url)
RowsWithUrl(url) == {r \in rows : r.url = url}

RowsWithId(id) == {r \in rows : r.id = id}

\* A write on a key waits while another session holds an uncommitted write on
\* it (row lock, or the unique index entry of an uncommitted insert).
Blocked(k, ips) == \E j \in Calls \ {k} : pending[j].locks \cap ips # {}

\* Column defaults of the table: a fresh id (uuid4; here the number of the call
\* that inserts, which inserts one row at most), the two timestamps, NULL otherwise
ColumnDefault(c, id, now) ==
  CASE c = "id" -> id
    [] c \in {"created_at", "updated_at"} -> now
    [] OTHER -> NULL

\* INSERT of the given columns; the others take their defaults
InsertRow(values, id, now) ==
  [c \in Columns |-> IF c \in DOMAIN values THEN values[c] ELSE ColumnDefault(c, id, now)]

\* The unique constraint on ip, as the INSERT of an ORM object meets it
UniqueViolationNever(ip) == FALSE

UniqueViolationAlways(ip) == TRUE

UniqueViolation(ip) == RowsWithIp(ip) # {}

\* ON CONFLICT (ip) DO UPDATE SET c = excluded.c for the columns of the set
\* clause; every other column of the existing row is left as it is (a
\* Column.onupdate is not applied by an ON CONFLICT update).
OnConflictDoUpdate(old, values, setc) ==
  [c \in Columns |-> IF c \in setc THEN values[c] ELSE old[c]]

\* The system column xmax of the returned row: 0 for a row this statement
\* inserted, the locking transaction's id for a row it updated.
xmax(conflict, txid) == IF conflict THEN txid ELSE 0

\* Applying a session's writes at COMMIT
Committed(txn) ==
  {r \in rows : r.id \notin txn.del /\ r.id \notin {w.id : w \in txn.put}} \cup txn.put

SurfaceWrapAll(method, e) == "DatabaseUnavailableError"

\* The exception a repository method lets out for an exception raised inside
\* its try block
Surface(method, e) ==
  CASE method \in {"upsert", "add", "update", "get", "delete"} ->
         IF e \in CONNECTION_ERRORS THEN "DatabaseUnavailableError" ELSE e
    [] method = "exists" ->
         IF e = "OperationalError" THEN "DatabaseUnavailableError" ELSE e

\* ------------------------------------------------------------- calls
InFlight == {j \in Calls : pc[j] \notin {"idle", "done"}}

CanCall(k) ==
  /\ k = started + 1
  /\ Cardinality(InFlight) < MaxConc

Enter(k, o, label, r, d, now) ==
  /\ started' = k
  /\ op' = [op EXCEPT ![k] = o]
  /\ pc' = [pc EXCEPT ![k] = label]
  /\ req' = [req EXCEPT ![k] = r]
  /\ ip_data' = [ip_data EXCEPT ![k] = d]
  /\ hist' = [hist EXCEPT ![k].inflight = InFlight, ![k].dbAtStart = db]
  /\ clock' = now
  /\ UNCHANGED <<rows, db, raises, pending, existing, result>>

\* Names are interchangeable: a call names an ip (a domain) that an earlier
\* call has named, or the first one that none has.
Known(order, used) ==
  {order[i] : i \in {j \in DOMAIN order : j <= Cardinality(used) + 1}}

UsedIps ==
  ({req[j].ip : j \in Calls} \cup
   {ip_data[j].ip : j \in {i \in Calls : ip_data[i] # None}}) \ {NULL}

UsedDomains ==
  ({req[j].url : j \in Calls} \cup
   {ip_data[j].url : j \in {i \in Calls : ip_data[i] # None}}) \ {NULL}

KnownIps == Known(IpOrder, UsedIps)

KnownDomains == Known(DomainOrder, UsedDomains)

\* A caller builds a Geolocation and calls upsert, add or update of the store
CallStore(k) ==
  /\ CanCall(k)
  /\ \E o \in {"upsert", "add", "update"}, ip \in KnownIps,
        url \in KnownDomains \cup {NULL},
        given \in {AllGiven, LookupGiven} :
       /\ given = LookupGiven => url = NULL
       /\ Enter(k, o,
                CASE o = "upsert" -> "upsert_execute"
                  [] o = "add" -> "add_commit"
                  [] o = "update" -> "update_select",
                [ip |-> ip, url |-> NULL],
                Geolocation(ip, url, k, given, clock), clock + 1)

\* delete_by_ip / delete_by_url of the store
CallDelete(k) ==
  /\ CanCall(k)
  /\ \/ \E ip \in KnownIps :
          Enter(k, "delete_by_ip", "delete_ip_execute", [ip |-> ip, url |-> NULL],
                None, clock)
     \/ \E url \in KnownDomains :
          Enter(k, "delete_by_url", "delete_url_execute", [ip |-> NULL, url |-> url],
                None, clock)

\* get_by_ip / get_by_url of the store (get_ip_data / get_url_data of the
\* application service pass the argument through)
CallGet(k) ==
  /\ CanCall(k)
  /\ \/ \E ip \in KnownIps :
          Enter(k, "get_by_ip", "get_ip_execute", [ip |-> ip, url |-> NULL], None, clock)
     \/ \E url \in KnownDomains :
          Enter(k, "get_by_url", "get_url_execute", [ip |-> NULL, url |-> url], None, clock)

\* exists_by_ip / exists_by_url of the store, called on their own
CallExists(k) ==
  /\ CanCall(k)
  /\ \/ \E ip \in KnownIps :
          Enter(k, "exists_by_ip", "exists_ip_execute", [ip |-> ip, url |-> NULL],
                None, clock)
     \/ \E url \in KnownDomains :
          Enter(k, "exists_by_url", "exists_url_execute", [ip |-> NULL, url |-> url],
                None, clock)

\* add_ip_data(ip_address) / add_url_data(url) of the application service
CallAdd(k) ==
  /\ CanCall(k)
  /\ \/ \E ip \in KnownIps :
          Enter(k, "add_ip_data", "lookup_ip", [ip |-> ip, url |-> NULL], None, clock)
     \/ \E url \in KnownDomains :
          Enter(k, "add_url_data", "lookup_url", [ip |-> NULL, url |-> url], None, clock)

\* The call returns or raises: its session is closed, uncommitted work is lost
Finish(k, res) ==
  /\ pc' = [pc EXCEPT ![k] = "done"]
  /\ result' = [result EXCEPT ![k] = res]
  /\ pending' = [pending EXCEPT ![k] = NoTxn]
  /\ existing' = [existing EXCEPT ![k] = None]

Goto(k, label) == pc' = [pc EXCEPT ![k] = label]

\* What every step of a call leaves alone
Frame == UNCHANGED <<db, raises, started, op, req>>

\* get_session() with the engine closed: DatabaseUnavailableError, raised
\* before the method's try block
Closed(k) ==
  /\ db = "closed"
  /\ Finish(k, Raised("DatabaseUnavailableError"))
  /\ Frame
  /\ UNCHANGED <<rows, clock, ip_data, hist>>

\* A statement on a failing connection raises; the method rolls back and lets
\* out what its except clauses make of the exception
Fails(k, method) ==
  /\ db = "failing"
  /\ Finish(k, Raised(Surface(method, raises)))
  /\ Frame
  /\ UNCHANGED <<rows, clock, ip_data, hist>>

\* A method given None instead of a Geolocation fails on ip_data.ip
GivenNone(k) ==
  /\ ip_data[k] = None
  /\ Finish(k, Raised("AttributeError"))
  /\ Frame
  /\ UNCHANGED <<rows, clock, ip_data, hist>>

\* ------------------------------------------------------------- upsert
values_for_insert(d) ==
  LET payload_for_db == model_dump_exclude_unset(d)
  IN  [f \in DOMAIN payload_for_db \ {"created_at", "updated_at"} |-> payload_for_db[f]]

set_clause(d) ==
  LET update_fields ==
        DOMAIN model_dump_exclude_unset(d) \ {"id", "ip", "created_at", "updated_at"}
  IN  IF update_fields = {} THEN {"ip"} ELSE update_fields

operation_result_created(xmax_val) == "created"

operation_result_inverted(xmax_val) == IF xmax_val = 0 THEN "updated" ELSE "created"

operation_result(xmax_val) == IF xmax_val = 0 THEN "created" ELSE "updated"

\* session.execute(INSERT ... ON CONFLICT (ip) DO UPDATE ... RETURNING *, xmax)
UpsertExecute(k) ==
  /\ pc[k] = "upsert_execute"
  /\ \/ GivenNone(k)
     \/ ip_data[k] # None /\ Closed(k)
     \/ ip_data[k] # None /\ Fails(k, "upsert")
     \/ /\ ip_data[k] # None
        /\ db = "up"
        /\ ~Blocked(k, {ip_data[k].ip})
        /\ LET d == ip_data[k]
               old == RowsWithIp(d.ip)
               conflict == old # {}
               db_obj == IF conflict
                           THEN OnConflictDoUpdate(CHOOSE r \in old : TRUE,
                                                   values_for_insert(d), set_clause(d))
                           ELSE InsertRow(values_for_insert(d), k, clock)
           IN  /\ pending' = [pending EXCEPT ![k] =
                                [locks |-> {d.ip}, del |-> {}, put |-> {db_obj}]]
               /\ existing' = [existing EXCEPT ![k] = db_obj]
               /\ result' = [result EXCEPT ![k].outcome =
                                operation_result(xmax(conflict, k))]
               /\ hist' = [hist EXCEPT ![k].writes = @ + 1, ![k].existed = conflict]
        /\ clock' = clock + 1
        /\ Goto(k, "upsert_commit")
        /\ Frame
        /\ UNCHANGED <<rows, ip_data>>

\* session.commit(), then the return of (Geolocation, operation_result)
UpsertCommit(k) ==
  /\ pc[k] = "upsert_commit"
  /\ \/ Fails(k, "upsert")
     \/ /\ db # "failing"
        /\ rows' = Committed(pending[k])
        /\ Finish(k, Ok(model_validate(existing[k]), result[k].outcome))
        /\ Frame
        /\ UNCHANGED <<clock, ip_data, hist>>

\* ------------------------------------------------------------- add
\* The ORM leaves a None attribute out of the INSERT, so its column default
\* applies; of the fields of the model only url is ever None here.
NotNone(values) ==
  [f \in {g \in DOMAIN values : ~(g = "url" /\ values[g] = NULL)} |-> values[f]]

\* session.add(db_obj); session.commit(): the INSERT and its COMMIT
AddCommit(k) ==
  /\ pc[k] = "add_commit"
  /\ \/ GivenNone(k)
     \/ ip_data[k] # None /\ Closed(k)
     \/ ip_data[k] # None /\ Fails(k, "add")
     \/ /\ ip_data[k] # None
        /\ db = "up"
        /\ ~Blocked(k, {ip_data[k].ip})
        /\ hist' = [hist EXCEPT ![k].writes = @ + 1]
        /\ IF UniqueViolation(ip_data[k].ip)
             THEN /\ Finish(k, Raised(Surface("add", "IntegrityError")))
                  /\ UNCHANGED rows
             ELSE LET db_obj == InsertRow(NotNone(model_dump(ip_data[k])), k, clock)
                  IN  /\ rows' = rows \cup {db_obj}
                      /\ existing' = [existing EXCEPT ![k] = db_obj]
                      /\ Goto(k, "add_refresh")
                      /\ UNCHANGED <<pending, result>>
        /\ Frame
        /\ UNCHANGED <<clock, ip_data>>

\* session.refresh(obj), then the return of the Geolocation read back
Refresh(k) ==
  /\ pc[k] \in {"add_refresh", "update_refresh"}
  /\ LET method == IF pc[k] = "add_refresh" THEN "add" ELSE "update"
         cur == RowsWithId(existing[k].id)
     IN  \/ Fails(k, method)
         \/ /\ db # "failing"
            /\ IF cur = {}
                 THEN Finish(k, Raised(Surface(method, "InvalidRequestError")))
                 ELSE Finish(k, Ok(model_validate(CHOOSE r \in cur : TRUE), ""))
            /\ Frame
            /\ UNCHANGED <<rows, clock, ip_data, hist>>

\* ------------------------------------------------------------- update
\* session.execute(select(IpGeolocation).where(ip == ip_data.ip))
UpdateSelect(k) ==
  /\ pc[k] = "update_select"
  /\ \/ GivenNone(k)
     \/ ip_data[k] # None /\ Closed(k)
     \/ ip_data[k] # None /\ Fails(k, "update")
     \/ /\ ip_data[k] # None
        /\ db = "up"
        /\ LET found == RowsWithIp(ip_data[k].ip)
           IN  IF found = {}
                 THEN Finish(k, Raised(Surface("update", "ValueError")))
                 ELSE /\ existing' = [existing EXCEPT ![k] = CHOOSE r \in found : TRUE]
                      /\ Goto(k, "update_commit")
                      /\ UNCHANGED <<pending, result>>
        /\ Frame
        /\ UNCHANGED <<rows, clock, ip_data, hist>>

\* setattr(existing, key, value) for every field of model_dump(), then
\* session.commit(): the unit of work writes the attributes whose value
\* differs from the loaded one, WHERE id = existing.id, and applies
\* updated_at's onupdate when updated_at is not among them.
UpdateCommit(k) ==
  /\ pc[k] = "update_commit"
  /\ \/ Fails(k, "update")
     \/ /\ db # "failing"
        /\ LET dump == model_dump(ip_data[k])
               changed == {c \in ModelFields : dump[c] # existing[k][c]}
           IN  changed = {} \/ ~Blocked(k, {ip_data[k].ip})
        /\ LET dump == model_dump(ip_data[k])
               changed == {c \in ModelFields : dump[c] # existing[k][c]}
               cur == RowsWithId(existing[k].id)
               new == [c \in Columns |->
                         IF c \in changed THEN dump[c]
                         ELSE IF c = "updated_at" THEN clock
                         ELSE (CHOOSE r \in cur : TRUE)[c]]
           IN  IF changed = {}
                 THEN /\ Goto(k, "update_refresh")
                      /\ UNCHANGED <<rows, clock, pending, existing, result, hist>>
                 ELSE /\ hist' = [hist EXCEPT ![k].writes = @ + 1]
                      /\ clock' = IF "updated_at" \in changed THEN clock ELSE clock + 1
                      /\ IF cur = {}
                           THEN /\ Finish(k, Raised(Surface("update", "StaleDataError")))
                                /\ UNCHANGED rows
                           ELSE /\ rows' = (rows \ cur) \cup {new}
                                /\ Goto(k, "update_refresh")
                                /\ UNCHANGED <<pending, existing, result>>
        /\ Frame
        /\ UNCHANGED ip_data

\* ------------------------------------------------------------- delete
\* session.execute(delete(IpGeolocation).where(...)): delete_by_ip matches on
\* ip, delete_by_url on url
DeleteExecute(k) ==
  /\ pc[k] \in {"delete_ip_execute", "delete_url_execute"}
  /\ \/ Closed(k)
     \/ Fails(k, "delete")
     \/ /\ db = "up"
        /\ LET targets == IF pc[k] = "delete_ip_execute"
                            THEN RowsWithIp(req[k].ip)
                            ELSE RowsWithUrl(req[k].url)
           IN  /\ ~Blocked(k, {r.ip : r \in targets})
               /\ pending' = [pending EXCEPT ![k] =
                                [locks |-> {r.ip : r \in targets},
                                 del |-> {r.id : r \in targets}, put |-> {}]]
               /\ result' = [result EXCEPT ![k].value = Cardinality(targets)]
        /\ hist' = [hist EXCEPT ![k].writes = @ + 1]
        /\ Goto(k, "delete_commit")
        /\ Frame
        /\ UNCHANGED <<rows, clock, ip_data, existing>>

rowcount_not_negative(rowcount) == rowcount >= 0

\* result.rowcount > 0
rowcount_positive(rowcount) == rowcount > 0

\* session.commit(), then return result.rowcount > 0
DeleteCommit(k) ==
  /\ pc[k] = "delete_commit"
  /\ \/ Fails(k, "delete")
     \/ /\ db # "failing"
        /\ rows' = Committed(pending[k])
        /\ Finish(k, Ok(rowcount_positive(result[k].value), ""))
        /\ Frame
        /\ UNCHANGED <<clock, ip_data, hist>>

\* ------------------------------------------------------------- get
\* session.execute(select(IpGeolocation).where(...)), result.scalars().first():
\* None when no row matches, else the first row the database returns (any of
\* the matching rows: the statement has no ORDER BY)
GetExecute(k) ==
  /\ pc[k] \in {"get_ip_execute", "get_url_execute"}
  /\ \/ Closed(k)
     \/ Fails(k, "get")
     \/ /\ db = "up"
        /\ LET found == IF pc[k] = "get_ip_execute"
                          THEN RowsWithIp(req[k].ip)
                          ELSE RowsWithUrl(req[k].url)
           IN  IF found = {}
                 THEN Finish(k, Ok(None, ""))
                 ELSE \E data \in found : Finish(k, Ok(model_validate(data), ""))
        /\ Frame
        /\ UNCHANGED <<rows, clock, ip_data, hist>>

\* ------------------------------------------------------------- exists
\* session.execute(select(IpGeolocation).where(...)), then
\* scalar_one_or_none() is not None: MultipleResultsFound when more than one
\* row matches
ExistsExecute(k) ==
  /\ pc[k] \in {"exists_ip_execute", "exists_url_execute"}
  /\ \/ Closed(k)
     \/ Fails(k, "exists")
     \/ /\ db = "up"
        /\ LET found == IF pc[k] = "exists_ip_execute"
                          THEN RowsWithIp(req[k].ip)
                          ELSE RowsWithUrl(req[k].url)
           IN  IF Cardinality(found) > 1
                 THEN Finish(k, Raised(Surface("exists", "MultipleResultsFound")))
                 ELSE Finish(k, Ok(found # {}, ""))
        /\ Frame
        /\ UNCHANGED <<rows, clock, ip_data, hist>>

\* ------------------------------------------------------------- application service
is_none_never(d) == FALSE

\* `if ip_data is None`
is_none(d) == d = None

\* What the external service's get_geolocation_by_ip / _by_url may return
\* for call k: None, or a Geolocation built from the provider's answer
LookupReturns(k, ips) ==
  {None} \cup {Geolocation(ip, NULL, k, LookupGiven, clock) : ip \in ips}

\* add_ip_data up to its first store call: the lookup, and the None check
LookupIp(k) ==
  /\ pc[k] = "lookup_ip"
  /\ \/ /\ Finish(k, Raised("IpGeolocationServiceError"))
        /\ hist' = [hist EXCEPT ![k].lookups = @ + 1, ![k].lookup = "error"]
        /\ UNCHANGED <<ip_data, clock>>
     \/ \E d \in LookupReturns(k, {req[k].ip}) :
          /\ hist' = [hist EXCEPT ![k].lookups = @ + 1,
                                  ![k].lookup = IF d = None THEN "none" ELSE "found"]
          /\ clock' = clock + 1
          /\ IF is_none(d)
               THEN /\ Finish(k, Raised("NotFoundGeolocationData"))
                    /\ UNCHANGED ip_data
               ELSE /\ ip_data' = [ip_data EXCEPT ![k] = d]
                    /\ Goto(k, "exists_by_ip")
                    /\ UNCHANGED <<pending, existing, result>>
  /\ Frame
  /\ UNCHANGED rows

\* add_url_data up to its first store call: the lookup, the None check, and
\* the binding of the requested url
LookupUrl(k) ==
  /\ pc[k] = "lookup_url"
  /\ \/ /\ Finish(k, Raised("IpGeolocationServiceError"))
        /\ hist' = [hist EXCEPT ![k].lookups = @ + 1, ![k].lookup = "error"]
        /\ UNCHANGED <<ip_data, clock>>
     \/ \E d \in LookupReturns(k, KnownIps) :
          /\ hist' = [hist EXCEPT ![k].lookups = @ + 1,
                                  ![k].lookup = IF d = None THEN "none" ELSE "found"]
          /\ clock' = clock + 1
          /\ IF is_none(d)
               THEN /\ Finish(k, Raised("NotFoundGeolocationData"))
                    /\ UNCHANGED ip_data
               ELSE IF d = None
               THEN /\ Finish(k, Raised("AttributeError"))
                    /\ UNCHANGED ip_data
               ELSE /\ ip_data' = [ip_data EXCEPT ![k] =
                                     IF d.url # req[k].url
                                       THEN [d EXCEPT !.url = req[k].url,
                                                      !.fields_set = @ \cup {"url"}]
                                       ELSE d]
                    /\ Goto(k, "exists_by_url")
                    /\ UNCHANGED <<pending, existing, result>>
  /\ Frame
  /\ UNCHANGED rows

\* repository.exists_by_ip(ip_address) / exists_by_url(url), and the branch
\* into update or add
Exists(k) ==
  /\ pc[k] \in {"exists_by_ip", "exists_by_url"}
  /\ \/ Closed(k)
     \/ Fails(k, "exists")
     \/ /\ db = "up"
        /\ LET found == IF pc[k] = "exists_by_ip"
                          THEN RowsWithIp(req[k].ip)
                          ELSE RowsWithUrl(req[k].url)
           IN  IF Cardinality(found) > 1
                 THEN /\ Finish(k, Raised(Surface("exists", "MultipleResultsFound")))
                      /\ UNCHANGED hist
                 ELSE /\ Goto(k, IF found # {} THEN "update_select" ELSE "add_commit")
                      /\ hist' = [hist EXCEPT ![k].via =
                                    IF found # {} THEN "update" ELSE "add"]
                      /\ UNCHANGED <<pending, existing, result>>
        /\ Frame
        /\ UNCHANGED <<rows, clock, ip_data>>

\* ------------------------------------------------------------- lookup client
\* response.status_code == 200
HTTP_OK == 200

\* ipstack's error code for a missing access key
MISSING_ACCESS_KEY == 101

\* What client.get(url) may give: a network failure (httpx.RequestError), any
\* other exception, or a response with a status and a body.  A body is no
\* JSON at all, JSON that is no object, or an object; an object may carry an
\* "error" member (no object, or an object with a code) and the payload
\* fields.  A payload field is absent (or null), zero (the number 0), of a
\* value the entity's validation rejects, or valid.
NoBody == [json |-> "none", error |-> "absent", code |-> 0,
           ip |-> "absent", latitude |-> "absent", longitude |-> "absent"]

NetworkFailures ==
  {[net |-> n, status |-> 0, body |-> NoBody] : n \in {"RequestError", "Exception"}}

ErrorStatuses ==
  {[net |-> "ok", status |-> st, body |-> NoBody] : st \in {204, 404, 500}}

Bodies ==
  {[NoBody EXCEPT !.json = j] : j \in {"not_json", "not_object"}}
  \cup {[NoBody EXCEPT !.json = "object", !.error = "not_object"]}
  \cup {[NoBody EXCEPT !.json = "object", !.error = "object", !.code = c] :
          c \in {MISSING_ACCESS_KEY, 104}}
  \cup {[NoBody EXCEPT !.json = "object", !.ip = i, !.latitude = la, !.longitude = lo] :
          i \in {"absent", "invalid", "valid"},
          la \in {"absent", "zero", "invalid", "valid"},
          lo \in {"absent", "zero", "invalid", "valid"}}

Responses ==
  NetworkFailures \cup ErrorStatuses
  \cup {[net |-> "ok", status |-> HTTP_OK, body |-> b] : b \in Bodies}

\* What the health check of the provider may be answered
ProbeResponses ==
  {r \in Responses :
     r.body.json = "object" =>
       r.body.ip = "absent" /\ r.body.latitude = "absent" /\ r.body.longitude = "absent"}

Return(v) == [kind |-> "return", value |-> v, exc |-> ""]

Raise(e) == [kind |-> "raise", value |-> None, exc |-> e]

missing_fields_unchecked(data) == {}

\* [field for field in required_fields if not data.get(field)]
missing_fields(data) ==
  {f \in {"ip", "latitude", "longitude"} : data[f] \in {"absent", "zero"}}

\* Geolocation(**mapped_data): ip is a required str, latitude and longitude
\* are Optional[float]
ValidationError(data) ==
  \/ data.ip # "valid"
  \/ data.latitude = "invalid"
  \/ data.longitude = "invalid"

\* The try block of __get_geolocation_data, its inner `except ValidationError`
\* included; found is the Geolocation the mapped payload makes
get_geolocation_data_try(response, found) ==
  IF response.net # "ok" THEN Raise(response.net)
  ELSE IF response.status = HTTP_OK
    THEN LET data == response.body
         IN  CASE data.json = "not_json" -> Raise("JSONDecodeError")
               [] data.json = "not_object" -> Raise("AttributeError")
               [] data.error # "absent" -> Raise("IpGeolocationServiceError")
               [] missing_fields(data) # {} -> Raise("IpGeolocationServiceError")
               [] ValidationError(data) -> Raise("IpGeolocationServiceError")
               [] OTHER -> Return(found)
    ELSE Raise("IpGeolocationServiceError")

\* __get_geolocation_data: `except httpx.RequestError` and `except Exception`
\* both raise IpGeolocationServiceError
get_geolocation_data(response, found) ==
  LET outcome == get_geolocation_data_try(response, found)
  IN  IF outcome.kind = "raise" THEN Raise("IpGeolocationServiceError") ELSE outcome

code_is_any(code) == TRUE

\* data.get("error", {}).get("code") == 101
code_is_missing_key(code) == code = MISSING_ACCESS_KEY

\* IpStackGeolocationService.is_available: the try block, then `except
\* Exception: return False`
ipstack_is_available(response) ==
  LET data == response.body
      outcome ==
        IF response.net # "ok" THEN Raise(response.net)
        ELSE IF response.status = HTTP_OK
          THEN CASE data.json = "not_json" -> Raise("JSONDecodeError")
                 [] data.json = "not_object" -> Raise("AttributeError")
                 [] data.error = "not_object" -> Raise("AttributeError")
                 [] data.error = "absent" -> Return(FALSE)
                 [] OTHER -> Return(code_is_missing_key(data.code))
          ELSE Return(FALSE)
  IN  IF outcome.kind = "raise" THEN Return(FALSE) ELSE outcome

CanProbe(k) == CanCall(k) /\ k <= MaxProbes

\* get_geolocation_by_ip(ip_address) / get_geolocation_by_url(url) of the
\* lookup client, with what the provider will answer
CallLookup(k) ==
  /\ CanProbe(k)
  /\ \E response \in Responses :
       \/ \E ip \in KnownIps :
            Enter(k, "get_geolocation_by_ip", "client_get",
                  [ip |-> ip, url |-> NULL, response |-> response], None, clock)
       \/ \E url \in KnownDomains :
            Enter(k, "get_geolocation_by_url", "client_get",
                  [ip |-> NULL, url |-> url, response |-> response], None, clock)

\* The ip a valid payload names: the one asked about, or the one the domain
\* resolves to
PayloadIp(k) == IF req[k].ip # NULL THEN req[k].ip ELSE IpOrder[1]

\* The value of a member of the payload: the provider's value for call k, the
\* number 0, or nothing usable
PayloadValue(kind, f, k) ==
  CASE kind = "valid" -> <<f, k>>
    [] kind = "zero" -> <<f, 0>>
    [] OTHER -> NULL

\* The JSON object the provider answers call k with, under the provider's
\* member names
ProviderPayload(k) ==
  LET body == req[k].response.body
  IN  [ip |-> PayloadIp(k),
       latitude |-> PayloadValue(body.latitude, "latitude", k),
       longitude |-> PayloadValue(body.longitude, "longitude", k),
       city |-> <<"city", k>>,
       region_name |-> <<"region", k>>,
       country_name |-> <<"country", k>>,
       continent_name |-> <<"continent", k>>,
       zip |-> <<"postal_code", k>>]

\* mapped_data: the provider's members under the names of the entity
mapped_data(data) ==
  [ip |-> data.ip,
   latitude |-> data.latitude,
   longitude |-> data.longitude,
   city |-> data.city,
   region |-> data.region_name,
   country |-> data.country_name,
   continent |-> data.continent_name,
   postal_code |-> data.zip]

\* Geolocation(**mapped_data)
GeolocationOf(mapped, now) ==
  [f \in ModelFields \cup {"fields_set"} |->
     CASE f = "url" -> NULL
       [] f \in {"created_at", "updated_at"} -> now
       [] f = "fields_set" -> LookupGiven
       [] OTHER -> mapped[f]]

\* await client.get(url) and the rest of __get_geolocation_data
ClientGet(k) ==
  /\ pc[k] = "client_get"
  /\ LET found == GeolocationOf(mapped_data(ProviderPayload(k)), clock)
         outcome == get_geolocation_data(req[k].response, found)
     IN  /\ Finish(k, IF outcome.kind = "raise"
                        THEN Raised(outcome.exc) ELSE Ok(outcome.value, ""))
         /\ hist' = [hist EXCEPT ![k].lookups = @ + 1,
                                 ![k].lookup = IF outcome.kind = "raise" THEN "error"
                                               ELSE IF outcome.value = None THEN "none"
                                               ELSE "found"]
  /\ clock' = clock + 1
  /\ Frame
  /\ UNCHANGED <<rows, ip_data>>

\* is_available() of the lookup client, with what the provider will answer
CallClientProbe(k) ==
  /\ CanProbe(k)
  /\ \E response \in ProbeResponses :
       Enter(k, "client_is_available", "client_probe",
             [ip |-> NULL, url |-> NULL, response |-> response], None, clock)

\* await client.get("https://api.ipstack.com/check") and the rest of
\* is_available
ClientProbe(k) ==
  /\ pc[k] = "client_probe"
  /\ LET outcome == ipstack_is_available(req[k].response)
     IN  Finish(k, IF outcome.kind = "raise"
                     THEN Raised(outcome.exc) ELSE Ok(outcome.value, ""))
  /\ Frame
  /\ UNCHANGED <<rows, clock, ip_data, hist>>

\* is_available() of the store
CallStoreProbe(k) ==
  /\ CanProbe(k)
  /\ Enter(k, "is_available", "store_probe", [ip |-> NULL, url |-> NULL], None, clock)

\* IpGeolocationRepositoryImpl.is_available: get_session() outside the try
\* block, then session.execute(select(1)) inside it: True, or False on
\* CONNECTION_ERRORS and on any other Exception
StoreProbe(k) ==
  /\ pc[k] = "store_probe"
  /\ \/ Closed(k)
     \/ /\ db # "closed"
        /\ Finish(k, Ok(db = "up", ""))
        /\ Frame
        /\ UNCHANGED <<rows, clock, ip_data, hist>>

\* ------------------------------------------------------------- domain validator
\* A string is a sequence of tokens: a host label or scheme name, ".", ":",
\* "://", a port number, or a path.  A value that is no string is None or an
\* int.
Str(text) == [type |-> "str", text |-> text]

NotStr == {[type |-> t, text |-> <<>>] : t \in {"NoneType", "int"}}

PathTokens == {"/path"}

\* The public suffix list tldextract works from, each suffix as its labels
PublicSuffixes == {<<"com">>, <<"uk">>, <<"co", "uk">>}

\* The index of the first token of text that is in the set, Len(text) + 1 if
\* there is none
IndexOfFirst(text, set) ==
  IF \E i \in 1..Len(text) : text[i] \in set
    THEN CHOOSE i \in 1..Len(text) :
           text[i] \in set /\ \A j \in 1..(i - 1) : text[j] \notin set
    ELSE Len(text) + 1

Before(text, set) == SubSeq(text, 1, IndexOfFirst(text, set) - 1)

\* value.startswith("http://") or value.startswith("https://")
startswith_http(text) ==
  Len(text) >= 2 /\ text[1] \in {"http", "https"} /\ text[2] = "://"

\* urlparse(value).hostname: the network location after "scheme://" up to the
\* path, without the port; None (here the empty string) when it is empty
urlparse_hostname(text) ==
  LET netloc == Before(SubSeq(text, 3, Len(text)), PathTokens)
  IN  Before(netloc, {":"})

\* value.split(":")[0]
split_colon_first(text) == Before(text, {":", "://"})

RECURSIVE JoinLabels(_)
\* ".".join(labels)
JoinLabels(labels) ==
  IF Len(labels) = 0 THEN <<>>
  ELSE IF Len(labels) = 1 THEN labels
  ELSE <<labels[1], ".">> \o JoinLabels(Tail(labels))

\* tldextract.extract(host): the network location of host (whatever precedes
\* a path), split into labels; suffix is the longest public suffix the labels
\* end with, domain the label before it; with no public suffix the last
\* label is the domain.  The empty string stands for an empty part.
tldextract_extract(host) ==
  LET netloc == Before(host, PathTokens)
      labels == SelectSeq(netloc, LAMBDA t : t # ".")
      n == Len(labels)
      lens == {m \in 1..n : SubSeq(labels, n - m + 1, n) \in PublicSuffixes}
      m == IF lens = {} THEN 0 ELSE CHOOSE x \in lens : \A y \in lens : y <= x
  IN  [domain |-> IF n - m >= 1 THEN <<labels[n - m]>> ELSE <<>>,
       suffix |-> JoinLabels(SubSeq(labels, n - m + 1, n))]

\* domain_validator(value)
domain_validator(value) ==
  IF value.type # "str" THEN Raise("TypeError")
  ELSE LET host == IF startswith_http(value.text)
                     THEN urlparse_hostname(value.text)
                     ELSE split_colon_first(value.text)
           ext == tldextract_extract(host)
       IN  IF host = <<>> THEN Raise("ValueError")
           ELSE IF ext.domain = <<>> \/ ext.suffix = <<>> THEN Raise("ValueError")
           ELSE Return(ext.domain \o <<".">> \o ext.suffix)

\* What a caller may pass for a domain: an optional scheme, a host of
\* subdomains, a registrable label and a public suffix (any of them empty),
\* an optional port and an optional path
UrlParts ==
  {p \in [scheme : {"", "http", "https", "ftp"},
          subs : {<<>>, <<"www">>, <<"sub">>},
          label : {"", "example", "domain", "google", "localhost"},
          suffix : {<<>>, <<"com">>, <<"co", "uk">>},
          port : {"", "8080"},
          path : {""} \cup PathTokens] :
     p.label = "" => p.subs = <<>>}

HostOf(p) ==
  JoinLabels(p.subs \o (IF p.label = "" THEN <<>> ELSE <<p.label>>) \o p.suffix)

\* The string the parts spell
Render(p) ==
  (IF p.scheme = "" THEN <<>> ELSE <<p.scheme, "://">>)
  \o HostOf(p)
  \o (IF p.port = "" THEN <<>> ELSE <<":", p.port>>)
  \o (IF p.path = "" THEN <<>> ELSE <<p.path>>)

NoParts ==
  [scheme |-> "", subs |-> <<>>, label |-> "", suffix |-> <<>>, port |-> "", path |-> ""]

\* domain_validator called on its own (the unit tests' calls), on any string
\* and on values that are no string
InitCanon ==
  /\ rows = {}
  /\ clock = 1
  /\ db = "up"
  /\ raises = ""
  /\ pending = [k \in Calls |-> NoTxn]
  /\ started = 1
  /\ op = [k \in Calls |-> IF k = 1 THEN "domain_validator" ELSE "none"]
  /\ pc = [k \in Calls |-> IF k = 1 THEN "validate" ELSE "idle"]
  /\ \E p \in UrlParts :
     \E value \in {Str(Render(p))} \cup NotStr :
       /\ value.type # "str" => p = NoParts
       /\ req = [k \in Calls |->
                   IF k = 1 THEN [ip |-> NULL, url |-> value, parts |-> p]
                   ELSE [ip |-> NULL, url |-> NULL]]
  /\ ip_data = [k \in Calls |-> None]
  /\ existing = [k \in Calls |-> None]
  /\ result = [k \in Calls |-> NoResult]
  /\ hist = [k \in Calls |-> NoHist]

DomainValidate ==
  /\ pc[1] = "validate"
  /\ LET outcome == domain_validator(req[1].url)
     IN  Finish(1, IF outcome.kind = "raise"
                     THEN Raised(outcome.exc) ELSE Ok(outcome.value, ""))
  /\ Frame
  /\ UNCHANGED <<rows, clock, ip_data, hist>>

SpecCanon == InitCanon /\ [][DomainValidate]_vars

\* ------------------------------------------------------------- http layer
Endpoints == {"POST", "GET", "DELETE"}

\* A string IPvAnyAddress rejects
BadIp == "999.999.999.999"

\* The strings a client sends as url: one per canonical domain, and one that
\* names no registrable domain
HttpUrls ==
  {Str(Render(p)) : p \in
     {[NoParts EXCEPT !.scheme = "https", !.subs = <<"www">>, !.label = "example",
                      !.suffix = <<"com">>, !.port = "8080", !.path = "/path"],
      [NoParts EXCEPT !.subs = <<"sub">>, !.label = "domain", !.suffix = <<"co", "uk">>],
      [NoParts EXCEPT !.label = "google"]}}

\* The canonical domains, by the name the store's callers use for them
DomainName(text) ==
  CASE text = <<"example", ".", "com">> -> DomainOrder[1]
    [] text = <<"domain", ".", "co", ".", "uk">> -> DomainOrder[2]

\* Optional[IPvAnyAddress]
ip_address_valid(ip_address) == ip_address = NULL \/ ip_address \in Ips

\* A parameter the request does not carry: None
Absent == [type |-> "NoneType", text |-> <<>>]

\* Optional[DomainStr]: AfterValidator(domain_validator)
url_valid(url) == url = Absent \/ domain_validator(url).kind = "return"

\* The validated url: None, or the canonical domain
url_value(url) == IF url = Absent THEN NULL ELSE DomainName(domain_validator(url).value)

exactly_one_or_both(ip_address, url) == ip_address # NULL \/ url # NULL

\* GeolocationRequest.validate_request, and the same condition at the head of
\* delete_geolocation and get_geolocation: one of ip_address and url is given
\* and the other is not
exactly_one(ip_address, url) ==
  /\ ~(ip_address = NULL /\ url = NULL)
  /\ ~(ip_address # NULL /\ url # NULL)

\* How a parameter arrived: absent, a value its type accepts, or one it rejects
ParamKind(absent, valid) ==
  IF absent THEN "absent" ELSE IF valid THEN "valid" ELSE "invalid"

\* The operation of the application service an endpoint calls, with the
\* first await of that operation
Dispatch(endpoint, ip_address) ==
  CASE endpoint = "POST" /\ ip_address # NULL -> <<"add_ip_data", "lookup_ip">>
    [] endpoint = "POST" /\ ip_address = NULL -> <<"add_url_data", "lookup_url">>
    [] endpoint = "GET" /\ ip_address # NULL -> <<"get_by_ip", "get_ip_execute">>
    [] endpoint = "GET" /\ ip_address = NULL -> <<"get_by_url", "get_url_execute">>
    [] endpoint = "DELETE" /\ ip_address # NULL -> <<"delete_by_ip", "delete_ip_execute">>
    [] endpoint = "DELETE" /\ ip_address = NULL -> <<"delete_by_url", "delete_url_execute">>

\* The request is answered before any operation is called: the call is made
\* and done in one step
Reject(k, r, exc) ==
  /\ started' = k
  /\ op' = [op EXCEPT ![k] = "rejected"]
  /\ pc' = [pc EXCEPT ![k] = "done"]
  /\ req' = [req EXCEPT ![k] = r]
  /\ result' = [result EXCEPT ![k] = Raised(exc)]
  /\ hist' = [hist EXCEPT ![k].inflight = InFlight, ![k].dbAtStart = db]
  /\ UNCHANGED <<rows, clock, db, raises, pending, ip_data, existing>>

\* A request to POST, GET or DELETE /geolocation/: the validation of the
\* body or query parameters, the exactly-one check, and the call of the
\* application service
CallHttp(k) ==
  /\ CanCall(k)
  /\ \E endpoint \in Endpoints,
        ip_address \in {NULL, BadIp} \cup KnownIps,
        url \in {Absent} \cup HttpUrls :
       LET r == [ip |-> NULL, url |-> NULL, endpoint |-> endpoint,
                 ip_address |-> ParamKind(ip_address = NULL, ip_address_valid(ip_address)),
                 url_param |-> ParamKind(url = Absent, url_valid(url))]
       IN  IF ~ip_address_valid(ip_address) \/ ~url_valid(url)
             THEN Reject(k, r, "RequestValidationError")
           ELSE IF ~exactly_one(ip_address, url_value(url))
             THEN Reject(k, r, IF endpoint = "POST" THEN "RequestValidationError"
                               ELSE "HTTPException422")
           ELSE /\ url_value(url) \in KnownDomains \cup {NULL}
                /\ Enter(k, Dispatch(endpoint, ip_address)[1],
                         Dispatch(endpoint, ip_address)[2],
                         [r EXCEPT !.ip = ip_address, !.url = url_value(url)],
                         None, clock)

\* The status code of the response to a finished request: the handler's
\* return or HTTPException, FastAPI's answer to a validation error, or the
\* global exception handler's 500
http_status(k) ==
  LET endpoint == req[k].endpoint
      res == result[k]
  IN  CASE res.exc \in {"RequestValidationError", "HTTPException422"} -> 422
        [] res.exc = "DatabaseUnavailableError" -> 503
        [] endpoint = "POST" /\ res.exc = "IpGeolocationServiceError" -> 503
        [] endpoint = "POST" /\ res.exc = "NotFoundGeolocationData" -> 404
        [] res.status = "error" -> 500
        [] endpoint = "POST" -> 201
        [] endpoint = "GET" -> IF res.value = None THEN 404 ELSE 200
        [] endpoint = "DELETE" -> IF res.value THEN 200 ELSE 404

\* ------------------------------------------------------------- environment
\* DatabaseClient.close(): the engine is disposed and set to None
DbClose ==
  /\ db = "up"
  /\ db' = "closed"
  /\ UNCHANGED <<raises, rows, clock, pending, started, op, pc, req, ip_data,
                 existing, result, hist>>

\* The database server stops answering
DbFail ==
  /\ db = "up"
  /\ db' = "failing"
  /\ raises' \in DriverErrors
  /\ UNCHANGED <<rows, clock, pending, started, op, pc, req, ip_data,
                 existing, result, hist>>

\* The steps of the store's methods, whoever called them
StoreStep(k) ==
  \/ UpsertExecute(k)
  \/ UpsertCommit(k)
  \/ AddCommit(k)
  \/ Refresh(k)
  \/ UpdateSelect(k)
  \/ UpdateCommit(k)
  \/ DeleteExecute(k)
  \/ DeleteCommit(k)

\* Callers of the store (IpGeolocationRepositoryImpl) itself, the database up
NextStore ==
  \E k \in Calls : CallStore(k) \/ CallDelete(k) \/ StoreStep(k)

SpecStore == Init /\ [][NextStore]_vars

\* Callers of every method of the store that reads or writes rows, the
\* database up
NextStoreAll ==
  \E k \in Calls :
    \/ CallStore(k)
    \/ CallDelete(k)
    \/ CallGet(k)
    \/ CallExists(k)
    \/ StoreStep(k)
    \/ GetExecute(k)
    \/ ExistsExecute(k)

SpecStoreAll == Init /\ [][NextStoreAll]_vars

\* A caller of the store that makes one call after the other, with a
\* database that may go down at any step of a call
NextStoreDown ==
  \/ \E k \in Calls :
       \/ InFlight = {} /\ CallStore(k)
       \/ InFlight = {} /\ CallDelete(k)
       \/ StoreStep(k)
  \/ DbClose
  \/ DbFail

SpecStoreDown == Init /\ [][NextStoreDown]_vars

\* Callers of the application service, with the store methods it calls, and
\* a database that may go down
Next ==
  \/ \E k \in Calls :
       \/ CallAdd(k)
       \/ LookupIp(k)
       \/ LookupUrl(k)
       \/ Exists(k)
       \/ AddCommit(k)
       \/ UpdateSelect(k)
       \/ UpdateCommit(k)
       \/ Refresh(k)
  \/ DbClose
  \/ DbFail

Spec == Init /\ [][Next]_vars

\* Callers of every operation of the application service (add, get and
\* delete, by ip and by url), the database up
NextApp ==
  \E k \in Calls :
    \/ CallAdd(k)
    \/ CallGet(k)
    \/ CallDelete(k)
    \/ LookupIp(k)
    \/ LookupUrl(k)
    \/ Exists(k)
    \/ AddCommit(k)
    \/ UpdateSelect(k)
    \/ UpdateCommit(k)
    \/ Refresh(k)
    \/ GetExecute(k)
    \/ DeleteExecute(k)
    \/ DeleteCommit(k)

SpecApp == Init /\ [][NextApp]_vars

\* Clients of the HTTP endpoints, with the operations of the application
\* service and of the store behind them, the database up
NextHttp ==
  \E k \in Calls :
    \/ CallHttp(k)
    \/ LookupIp(k)
    \/ LookupUrl(k)
    \/ Exists(k)
    \/ AddCommit(k)
    \/ UpdateSelect(k)
    \/ UpdateCommit(k)
    \/ Refresh(k)
    \/ GetExecute(k)
    \/ DeleteExecute(k)
    \/ DeleteCommit(k)

SpecHttp == Init /\ [][NextHttp]_vars

\* Callers of the lookup client and of the two availability probes, with a
\* provider that answers anything and a database that may go down
NextInfra ==
  \/ \E k \in Calls :
       \/ CallLookup(k)
       \/ ClientGet(k)
       \/ CallClientProbe(k)
       \/ ClientProbe(k)
       \/ CallStoreProbe(k)
       \/ StoreProbe(k)
  \/ DbClose
  \/ DbFail

SpecInfra == Init /\ [][NextInfra]_vars

\* ------------------------------------------------------------- properties
Done(k) == pc[k] = "done"

Succeeded(k) == Done(k) /\ result[k].status = "ok"

\* Call j was made while call i was in progress, or the other way round
Concurrent(i, j) == i \in hist[j].inflight \/ j \in hist[i].inflight

\* Call m may write the row of ip
Touches(m, ip) ==
  /\ op[m] \notin {"none", "get_by_ip", "get_by_url", "exists_by_ip", "exists_by_url"}
  /\ req[m].ip = ip \/ op[m] \in {"delete_by_url", "add_url_data"}

\* Calls i and j are the only calls so far that may have written the row of ip
OnlyWriters(i, j, ip) == \A m \in Calls \ {i, j} : ~Touches(m, ip)

\* Calls i and j are calls of o for the same ip, and no other call has
\* touched that ip: the ip had no row when they began
PairOn(i, j, o) ==
  /\ i # j
  /\ op[i] = o /\ op[j] = o
  /\ req[i].ip = req[j].ip
  /\ OnlyWriters(i, j, req[i].ip)

\* The record agrees with the Geolocation d in every mutable field
SameMutable(rec, d) == \A f \in MutableFields : rec[f] = d[f]

\* C1: two concurrent upserts for the same ip, which had no row, both return
\* without error, one with CREATED and one with UPDATED.
C1_OneCreatedOneUpdated ==
  \A i, j \in Calls :
    (PairOn(i, j, "upsert") /\ Concurrent(i, j) /\ Done(i) /\ Done(j)) =>
      /\ result[i].status = "ok"
      /\ result[j].status = "ok"
      /\ {result[i].outcome, result[j].outcome} = {"created", "updated"}

C1_Witness ==
  \E i, j \in Calls :
    /\ PairOn(i, j, "upsert") /\ Concurrent(i, j)
    /\ Succeeded(i) /\ Succeeded(j)
    /\ result[i].outcome = "created" /\ result[j].outcome = "updated"

\* C3: after two concurrent upserts of A and B for the same ip, the record
\* returned with UPDATED and the stored row equal A in every mutable field or
\* B in every mutable field.
C3_NoFieldMerge ==
  \A i, j \in Calls :
    (PairOn(i, j, "upsert") /\ Concurrent(i, j) /\ Succeeded(i) /\ Succeeded(j)
       /\ result[j].outcome = "updated") =>
      /\ SameMutable(result[j].value, ip_data[i]) \/ SameMutable(result[j].value, ip_data[j])
      /\ \A r \in RowsWithIp(req[i].ip) :
           SameMutable(r, ip_data[i]) \/ SameMutable(r, ip_data[j])

\* C4: an upsert reports CREATED exactly when no row with its ip existed at
\* its write; upsert, upsert in sequence gives CREATED, UPDATED and upsert,
\* delete_by_ip, upsert gives CREATED, CREATED.
C4_CreatedIffNoRow ==
  /\ \A k \in Calls :
       (op[k] = "upsert" /\ Succeeded(k)) =>
         (result[k].outcome = "created" <=> ~hist[k].existed)
  /\ \A i, j \in Calls :
       (PairOn(i, j, "upsert") /\ i < j /\ ~Concurrent(i, j)
          /\ Succeeded(i) /\ Succeeded(j)) =>
         (result[i].outcome = "created" /\ result[j].outcome = "updated")
  /\ \A i, d, j \in Calls :
       (/\ i < d /\ d < j
        /\ op[i] = "upsert" /\ op[d] = "delete_by_ip" /\ op[j] = "upsert"
        /\ req[i].ip = req[d].ip /\ req[d].ip = req[j].ip
        /\ \A m \in Calls \ {i, d, j} : ~Touches(m, req[i].ip)
        /\ ~Concurrent(i, d) /\ ~Concurrent(d, j) /\ ~Concurrent(i, j)
        /\ Succeeded(i) /\ Succeeded(d) /\ Succeeded(j)) =>
         (result[i].outcome = "created" /\ result[d].value /\ result[j].outcome = "created")

C4_Witness ==
  /\ op[1] = "upsert" /\ op[2] = "delete_by_ip" /\ op[3] = "upsert"
  /\ req[1].ip = req[2].ip /\ req[2].ip = req[3].ip
  /\ hist[2].inflight = {} /\ hist[3].inflight = {}
  /\ Succeeded(1) /\ Succeeded(2) /\ Succeeded(3)
  /\ result[1].outcome = "created" /\ result[3].outcome = "created"
  /\ ~hist[3].existed

\* C6: across two sequential upserts for the same ip the stored updated_at
\* strictly increases (every write refreshes updated_at).
C6_UpdatedAtRefreshed ==
  \A i, j \in Calls :
    (PairOn(i, j, "upsert") /\ i < j /\ ~Concurrent(i, j)
       /\ Succeeded(i) /\ Succeeded(j)) =>
      result[j].value.updated_at > result[i].value.updated_at

\* C7: an upsert on an existing ip leaves the row equal to its record in
\* every mutable field, a url the record does not carry included (null).
C7_UpsertOverwritesAll ==
  \A k \in Calls :
    (op[k] = "upsert" /\ Succeeded(k) /\ result[k].outcome = "updated") =>
      SameMutable(result[k].value, ip_data[k])

\* C8: at most one row exists for any ip.
C8_IpUnique == \A r1, r2 \in rows : r1.ip = r2.ip => r1 = r2

C8_Witness ==
  \E k \in Calls :
    /\ op[k] = "add" /\ Done(k)
    /\ result[k].exc = "DatabaseUnavailableError"
    /\ Cardinality(RowsWithIp(req[k].ip)) = 1

\* C2: two concurrent add_ip_data calls for an ip that had no row, the lookup
\* answering both, both succeed, one through add and one through update, and
\* one row for the ip exists afterwards.
C2_ConcurrentAddsBothSucceed ==
  \A i, j \in Calls :
    (PairOn(i, j, "add_ip_data") /\ Concurrent(i, j)
       /\ hist[i].lookup = "found" /\ hist[j].lookup = "found"
       /\ db = "up" /\ Done(i) /\ Done(j)) =>
      /\ result[i].status = "ok"
      /\ result[j].status = "ok"
      /\ {hist[i].via, hist[j].via} = {"add", "update"}
      /\ Cardinality(RowsWithIp(req[i].ip)) = 1

\* C5: created_at is write-once: a row keeps the created_at of its insert for
\* as long as it exists, whatever later upsert, update or add is made for its
\* ip.
C5_CreatedAtWriteOnce ==
  [][\A r \in rows : \A w \in rows' : w.id = r.id => w.created_at = r.created_at]_vars

\* C9: with the store down when add_ip_data is called, the call fails with
\* DatabaseUnavailableError and never calls the lookup service.
C9_NoLookupWhenStoreDown ==
  \A k \in Calls :
    (op[k] = "add_ip_data" /\ hist[k].dbAtStart # "up") =>
      /\ hist[k].lookups = 0
      /\ Done(k) => result[k].exc = "DatabaseUnavailableError"

\* C10: when the lookup returns None, add_ip_data and add_url_data fail with
\* NotFoundGeolocationData, call no method of the store and write nothing.
C10_NotFoundWritesNothing ==
  \A k \in Calls :
    (op[k] \in {"add_ip_data", "add_url_data"} /\ hist[k].lookup = "none") =>
      /\ Done(k)
      /\ result[k].status = "error"
      /\ result[k].exc = "NotFoundGeolocationData"
      /\ hist[k].via = ""
      /\ hist[k].writes = 0
      /\ pending[k] = NoTxn

C10_Witness ==
  \E i, j \in Calls :
    /\ op[i] = "add_ip_data" /\ hist[i].lookup = "none" /\ Done(i)
    /\ op[j] = "add_url_data" /\ hist[j].lookup = "none" /\ Done(j)
    /\ rows # {}

\* Call k ran alone: no call was in progress when it began, and none began
\* while it was in progress
NoOverlap(k) ==
  /\ op[k] # "none"
  /\ hist[k].inflight = {}
  /\ \A m \in Calls : k \notin hist[m].inflight

\* Call j was made right after call i returned, each of them running alone
\* and for the same ip
RightAfter(i, j) ==
  /\ j = i + 1
  /\ NoOverlap(i) /\ NoOverlap(j)
  /\ req[i].ip = req[j].ip

\* C11: a successful add_ip_data(ip) followed immediately by get_by_ip(ip)
\* returns a record whose ip is the requested one and whose location fields
\* are the ones the lookup returned to that add.
C11_AddThenGet ==
  \A i, j \in Calls :
    (/\ RightAfter(i, j)
     /\ op[i] = "add_ip_data" /\ Succeeded(i)
     /\ op[j] = "get_by_ip" /\ Succeeded(j)) =>
      /\ result[j].value # None
      /\ result[j].value.ip = req[i].ip
      /\ \A f \in LocationFields : result[j].value[f] = ip_data[i][f]

C11_Witness ==
  \E i, j \in Calls :
    /\ RightAfter(i, j)
    /\ op[i] = "add_ip_data" /\ Succeeded(i) /\ hist[i].via = "update"
    /\ op[j] = "get_by_ip" /\ Succeeded(j)
    /\ result[j].value # None
    /\ result[j].value.city = <<"city", i>>

\* C12: delete_by_ip on an ip with no row returns false without error; on an
\* ip with a row it returns true, and a get_by_ip right after it returns
\* None.
C12_DeleteByIp ==
  /\ \A d \in Calls :
       (op[d] = "delete_by_ip" /\ NoOverlap(d) /\ Done(d)) =>
         /\ result[d].status = "ok"
         /\ (d = 1) => (result[d].value = FALSE)
         /\ (started = d) => (RowsWithIp(req[d].ip) = {})
  /\ \A i, d \in Calls :
       (/\ RightAfter(i, d)
        /\ op[i] \in {"add_ip_data", "add_url_data"} /\ Succeeded(i)
        /\ result[i].value.ip = req[d].ip
        /\ op[d] = "delete_by_ip" /\ Done(d)) =>
         (result[d].value = TRUE)
  /\ \A d, g \in Calls :
       (/\ RightAfter(d, g)
        /\ op[d] = "delete_by_ip" /\ Done(d)
        /\ op[g] = "get_by_ip" /\ Done(g)) =>
         (result[g].status = "ok" /\ result[g].value = None)

C12_Witness ==
  /\ op[1] = "add_ip_data" /\ Succeeded(1) /\ NoOverlap(1)
  /\ op[2] = "delete_by_ip" /\ Succeeded(2) /\ NoOverlap(2) /\ req[2].ip = req[1].ip
  /\ result[2].value = TRUE
  /\ op[3] = "get_by_ip" /\ Succeeded(3) /\ NoOverlap(3) /\ req[3].ip = req[1].ip
  /\ result[3].value = None

\* C13: after a successful add_url_data(d) the returned and the stored record
\* have url d, and the rows a get_by_url(d) or delete_by_url(d) made next
\* would find are this record and no other.
C13_AddByDomainBindsUrl ==
  \A k \in Calls :
    (op[k] = "add_url_data" /\ Succeeded(k) /\ NoOverlap(k) /\ started = k) =>
      /\ result[k].value.url = req[k].url
      /\ RowsWithIp(result[k].value.ip) # {}
      /\ \A r \in RowsWithIp(result[k].value.ip) : r.url = req[k].url
      /\ RowsWithUrl(req[k].url) = RowsWithIp(result[k].value.ip)

\* C14: every stored row carries, for its ip, the location fields of a record
\* the lookup returned to an add, and a call writes to the store only after
\* its own lookup returned a record.
C14_LocationFromLookup ==
  /\ \A r \in rows :
       \E k \in Calls :
         /\ op[k] \in {"add_ip_data", "add_url_data"}
         /\ hist[k].lookup = "found"
         /\ ip_data[k] # None
         /\ ip_data[k].ip = r.ip
         /\ \A f \in LocationFields : r[f] = <<f, k>>
  /\ \A k \in Calls : hist[k].writes > 0 => hist[k].lookup = "found"

C14_Witness ==
  \E r \in rows :
    \E k \in Calls :
      /\ r.id # k
      /\ hist[k].via = "update" /\ Succeeded(k)
      /\ r.city = <<"city", k>>

\* C15: an add_url_data whose lookup returns a record succeeds whatever rows
\* the store holds (a row for the looked-up ip with another url or none, a
\* row with the url under another ip), and leaves exactly one row for the
\* looked-up ip, with the requested url.
C15_RebindDecidedByIp ==
  \A k \in Calls :
    (/\ op[k] = "add_url_data" /\ hist[k].lookup = "found"
     /\ NoOverlap(k) /\ started = k /\ Done(k)) =>
      /\ result[k].status = "ok"
      /\ Cardinality(RowsWithIp(ip_data[k].ip)) = 1
      /\ \A r \in RowsWithIp(ip_data[k].ip) : r.url = req[k].url

\* C16: every failure of a store operation reaches the caller as
\* DatabaseUnavailableError: a call that fails for another reason than its
\* lookup (service error, nothing found) or a missing row fails with
\* DatabaseUnavailableError.
C16_ClosedErrorSet ==
  \A k \in Calls :
    (/\ Done(k) /\ result[k].status = "error"
     /\ result[k].exc \notin
          {"IpGeolocationServiceError", "NotFoundGeolocationData", "ValueError"}) =>
      result[k].exc = "DatabaseUnavailableError"

\* C20: update for an ip with no row fails with the not-found error
\* (ValueError) and creates no row; for an ip with a row it returns the
\* stored record after the update; upsert never fails with that error.
C20_StrictUpdate ==
  /\ \A k \in Calls :
       (op[k] = "update" /\ NoOverlap(k) /\ started = k /\ Done(k)) =>
         IF RowsWithIp(req[k].ip) = {}
           THEN result[k].status = "error" /\ result[k].exc = "ValueError"
           ELSE /\ result[k].status = "ok"
                /\ \A r \in RowsWithIp(req[k].ip) :
                     /\ \A f \in ModelFields : result[k].value[f] = r[f]
                     /\ SameMutable(r, ip_data[k])
  /\ \A k \in Calls : op[k] = "update" => RowsWithId(k) = {}
  /\ \A k \in Calls : (op[k] = "upsert" /\ Done(k)) => result[k].exc # "ValueError"

C20_Witness ==
  \E i, j \in Calls :
    /\ op[i] = "update" /\ NoOverlap(i) /\ Done(i) /\ result[i].exc = "ValueError"
    /\ op[j] = "update" /\ NoOverlap(j) /\ Succeeded(j) /\ started = j
    /\ req[i].ip = req[j].ip

\* C17: is_available of the store never raises: in every state of the
\* database client (connected, failing, engine closed) it returns a boolean.
C17_StoreProbeNeverThrows ==
  \A k \in Calls :
    (op[k] = "is_available" /\ Done(k)) =>
      /\ result[k].status = "ok"
      /\ result[k].value \in BOOLEAN

\* The provider answered the health check with its missing-access-key error
AnsweredMissingKey(response) ==
  /\ response.net = "ok"
  /\ response.status = HTTP_OK
  /\ response.body.json = "object"
  /\ response.body.error = "object"
  /\ response.body.code = MISSING_ACCESS_KEY

BadAnswer(response) ==
  \/ response.net # "ok"
  \/ response.status # HTTP_OK
  \/ response.body.json # "object"
  \/ response.body.error # "absent"
  \/ \E f \in {"ip", "latitude", "longitude"} : response.body[f] \in {"absent", "invalid"}

AddStep(k) == op[k] = "add" /\ pc[k] = "add_commit" /\ pc'[k] # "add_commit"

\* C21: add for an ip that already has a row fails and leaves the table as it
\* was (the row keeps every field, no second row appears); add for an ip with
\* no row inserts one row carrying the record and returns the stored record.
C21_StrictInsert ==
  /\ [][\A k \in Calls :
          AddStep(k) =>
            IF RowsWithIp(ip_data[k].ip) # {}
              THEN /\ pc'[k] = "done"
                   /\ result'[k].status = "error"
                   /\ rows' = rows
              ELSE /\ rows \subseteq rows'
                   /\ \E r \in rows' \ rows :
                        /\ rows' = rows \cup {r}
                        /\ r.ip = ip_data[k].ip
                        /\ SameMutable(r, ip_data[k])]_vars
  /\ [](\A k \in Calls :
          (op[k] = "add" /\ NoOverlap(k) /\ started = k /\ Done(k)) =>
            IF result[k].status = "error"
              THEN RowsWithId(k) = {} /\ Cardinality(RowsWithIp(req[k].ip)) = 1
              ELSE /\ RowsWithId(k) = RowsWithIp(req[k].ip)
                   /\ \A r \in RowsWithId(k) :
                        \A f \in ModelFields : result[k].value[f] = r[f])

C21_Witness ==
  \E i, j \in Calls :
    /\ op[i] = "add" /\ Succeeded(i)
    /\ op[j] = "add" /\ NoOverlap(j) /\ started = j /\ Done(j)
    /\ req[i].ip = req[j].ip
    /\ result[j].status = "error"
    /\ ip_data[j].url # ip_data[i].url
    /\ \E r \in rows : r.id = i /\ r.url = ip_data[i].url /\ r.city = <<"city", i>>

\* The call was given a string whose host has a registrable label and a
\* public suffix
HasRegistrableDomain(k) ==
  /\ req[k].url.type = "str"
  /\ req[k].parts.label # ""
  /\ req[k].parts.suffix # <<>>

\* C24: domain_validator returns label.suffix for every string whose host has
\* a non-empty registrable label and a non-empty public suffix, whatever
\* scheme, port, path and subdomains it carries; it fails with ValueError for
\* an empty host, a single-label host and the empty string, and with
\* TypeError for a value that is no string.
C24_Canonicalize ==
  (op[1] = "domain_validator" /\ Done(1)) =>
    IF req[1].url.type # "str"
      THEN result[1].status = "error" /\ result[1].exc = "TypeError"
    ELSE IF HasRegistrableDomain(1)
      THEN /\ result[1].status = "ok"
           /\ result[1].value =
                <<req[1].parts.label, ".">> \o JoinLabels(req[1].parts.suffix)
    ELSE result[1].status = "error" /\ result[1].exc = "ValueError"

\* Call k is a request to one of the endpoints
IsRequest(k) == op[k] \notin {"none", "domain_validator"}

\* The request carries both ip_address and url, or neither
BothOrNeither(k) ==
  (req[k].ip_address = "absent") <=> (req[k].url_param = "absent")

\* No operation of the application service, of the lookup client or of the
\* store was called for call k
NothingCalled(k) ==
  /\ op[k] = "rejected"
  /\ hist[k].lookups = 0
  /\ hist[k].via = ""
  /\ hist[k].writes = 0
  /\ ip_data[k] = None

\* C22: a POST, GET or DELETE request that carries both ip_address and url,
\* or neither, is answered 422 and calls no operation of the application
\* service, the lookup client or the store; a request with exactly one of
\* them, well formed, is passed on.
C22_ExactlyOneInput ==
  \A k \in Calls :
    IsRequest(k) =>
      /\ BothOrNeither(k) =>
           (Done(k) /\ http_status(k) = 422 /\ NothingCalled(k))
      /\ (~BothOrNeither(k) /\ "invalid" \notin {req[k].ip_address, req[k].url_param}) =>
           op[k] = Dispatch(req[k].endpoint, req[k].ip)[1]

C22_Witness ==
  \E i, j, m \in Calls :
    /\ op[i] = "rejected" /\ req[i].endpoint = "POST"
    /\ req[i].ip_address = "valid" /\ req[i].url_param = "valid"
    /\ op[j] = "rejected" /\ req[j].endpoint = "DELETE"
    /\ req[j].ip_address = "absent" /\ req[j].url_param = "absent"
    /\ op[m] = "get_by_url" /\ Done(m) /\ http_status(m) = 404

\* Call k is an add that returned a record
AddSucceeded(k) == op[k] \in {"add_ip_data", "add_url_data"} /\ Succeeded(k)

\* C23: every successful add returns, with the record, an outcome tag that is
\* created when it inserted the row and updated when it refreshed an existing
\* one, and the responses to a creating and to a refreshing add carry
\* different success status codes.
C23_AddOutcomeReported ==
  /\ \A k \in Calls :
       AddSucceeded(k) =>
         result[k].outcome = (IF hist[k].via = "add" THEN "created" ELSE "updated")
  /\ \A i, j \in Calls :
       (AddSucceeded(i) /\ AddSucceeded(j)
          /\ hist[i].via = "add" /\ hist[j].via = "update") =>
         http_status(i) # http_status(j)

MutatingOps == {"upsert", "add", "update", "delete_by_ip", "delete_by_url"}

\* Row r carries a write of call k: k inserted it, or k's record is in it
WrittenBy(r, k) == r.id = k \/ \E f \in LocationFields : r[f] = <<f, k>>

\* C25: a mutating store operation (upsert, add, update, delete_by_ip,
\* delete_by_url) that ends with an error has changed nothing: the step that
\* surfaces the error commits nothing, a delete that removed rows does not
\* fail, and no row carries a write of the failed call.
C25_FailedMutationChangesNothing ==
  /\ [][\A k \in Calls :
          (pc[k] # "done" /\ pc'[k] = "done" /\ result'[k].status = "error") =>
            rows' = rows]_vars
  /\ [][\A k \in Calls :
          (op[k] \in {"delete_by_ip", "delete_by_url"} /\ pc'[k] # pc[k] /\ rows' # rows) =>
            result'[k].status = "ok"]_vars
  /\ [](\A k \in Calls :
          (op[k] \in MutatingOps /\ Done(k) /\ result[k].status = "error") =>
            \A r \in rows : ~WrittenBy(r, k))

IsAdd(k) == op[k] \in {"add_ip_data", "add_url_data"}

\* The four exits of an add: DONE, STORE_UNAVAILABLE, NOT_FOUND, EXTERNAL_ERROR
AddExits ==
  {"", "DatabaseUnavailableError", "NotFoundGeolocationData", "IpGeolocationServiceError"}

\* Within an add the lookup is called at most once, the store is written at
\* most once and only after the lookup returned a record, and an add that
\* ended on the lookup has not reached the store
SinglePass(k) ==
  /\ hist[k].lookups <= 1
  /\ hist[k].writes <= 1
  /\ hist[k].writes > 0 => hist[k].lookup = "found"
  /\ hist[k].via # "" => hist[k].lookup = "found"
  /\ (Done(k) /\ result[k].exc \in {"NotFoundGeolocationData", "IpGeolocationServiceError"}) =>
       (hist[k].lookups = 1 /\ hist[k].via = "" /\ hist[k].writes = 0)

\* C26: every add_ip_data and add_url_data ends in exactly one of DONE,
\* STORE_UNAVAILABLE, NOT_FOUND and EXTERNAL_ERROR; it calls the lookup at
\* most once, writes the store at most once and only after the lookup
\* returned a record, and takes no further step once it has ended.
C26_AddSinglePass ==
  /\ [](\A k \in Calls :
          IsAdd(k) =>
            /\ SinglePass(k)
            /\ Done(k) => result[k].exc \in AddExits)
  /\ [][\A k \in Calls :
          Done(k) => (pc'[k] = "done" /\ result'[k] = result[k] /\ hist'[k] = hist[k])]_vars

\* C27: an add_ip_data that runs interleaved with a delete or another add for
\* its ip ends with a stored record or with NotFoundGeolocationData,
\* IpGeolocationServiceError or DatabaseUnavailableError, never with another
\* exception, and its response is never the 500 of an unclassified error.
C27_AddOutcomesClosed ==
  \A k \in Calls :
    (op[k] = "add_ip_data" /\ Done(k)) =>
      /\ \/ result[k].status = "ok" /\ result[k].value # None
         \/ result[k].exc \in {"NotFoundGeolocationData", "IpGeolocationServiceError",
                               "DatabaseUnavailableError"}
      /\ http_status(k) # 500

\* The provider answered call k with status 200, no error envelope, and ip,
\* latitude and longitude present and well typed (0 included)
WellFormedAnswer(k) ==
  LET response == req[k].response
  IN  /\ response.net = "ok"
      /\ response.status = HTTP_OK
      /\ response.body.json = "object"
      /\ response.body.error = "absent"
      /\ response.body.ip = "valid"
      /\ response.body.latitude \in {"valid", "zero"}
      /\ response.body.longitude \in {"valid", "zero"}

\* C28: for every answer with status 200, no error envelope, and ip, latitude
\* and longitude present and well typed, a latitude or longitude of 0
\* included, the lookup returns a record with the provider's latitude and
\* longitude and with region, country, continent and postal_code taken from
\* region_name, country_name, continent_name and zip.
C28_PresenceCheck ==
  \A k \in Calls :
    (/\ op[k] \in {"get_geolocation_by_ip", "get_geolocation_by_url"}
     /\ Done(k)
     /\ WellFormedAnswer(k)) =>
      /\ result[k].status = "ok"
      /\ result[k].value # None
      /\ result[k].value.ip = ProviderPayload(k).ip
      /\ result[k].value.latitude = ProviderPayload(k).latitude
      /\ result[k].value.longitude = ProviderPayload(k).longitude
      /\ result[k].value.city = ProviderPayload(k).city
      /\ result[k].value.region = ProviderPayload(k).region_name
      /\ result[k].value.country = ProviderPayload(k).country_name
      /\ result[k].value.continent = ProviderPayload(k).continent_name
      /\ result[k].value.postal_code = ProviderPayload(k).zip

\* Call k ran alone and is the last call made: the rows are those it saw
AloneAndLast(k) == NoOverlap(k) /\ started = k /\ Done(k)

\* The returned record is the row r
IsRow(rec, r) == \A f \in ModelFields : rec[f] = r[f]

\* C29: exists_by_url(d) and get_by_url(d) never raise, however many rows
\* have url d: exists_by_url returns true exactly when some row has url d,
\* get_by_url returns None exactly when none has and otherwise one of those
\* rows, the same one on a repeated call while the rows are unchanged.
C29_LookupsByDomainTotal ==
  /\ \A k \in Calls :
       (op[k] = "exists_by_url" /\ AloneAndLast(k)) =>
         /\ result[k].status = "ok"
         /\ result[k].value = (RowsWithUrl(req[k].url) # {})
  /\ \A k \in Calls :
       (op[k] = "get_by_url" /\ AloneAndLast(k)) =>
         /\ result[k].status = "ok"
         /\ IF RowsWithUrl(req[k].url) = {}
              THEN result[k].value = None
              ELSE /\ result[k].value # None
                   /\ \E r \in RowsWithUrl(req[k].url) : IsRow(result[k].value, r)
  /\ \A i, j \in Calls :
       (/\ j = i + 1 /\ NoOverlap(i) /\ NoOverlap(j)
        /\ op[i] = "get_by_url" /\ op[j] = "get_by_url" /\ req[i].url = req[j].url
        /\ Succeeded(i) /\ Succeeded(j)) =>
         result[i].value = result[j].value

\* The step is one of call k, which is a call of one of the operations
StepOf(k, ops) == pc'[k] # pc[k] /\ op'[k] \in ops

\* The rows the step removes
Removed == rows \ rows'

\* The step ends call k with the boolean b
Returns(k, b) == pc'[k] = "done" /\ result'[k].status = "ok" /\ result'[k].value = b

\* C30: delete_by_ip removes at most the one row with its ip and delete_by_url
\* the rows with its url, every one of them and no row with another or no
\* url; no other row is removed or changed; each returns true exactly when it
\* removed a row; get_by_ip, get_by_url, exists_by_ip and exists_by_url
\* change no row.
C30_FrameOfDeleteAndRead ==
  /\ [][\A k \in Calls :
          StepOf(k, {"delete_by_ip"}) =>
            /\ rows' \subseteq rows
            /\ Cardinality(Removed) <= 1
            /\ \A r \in Removed : r.ip = req'[k].ip
            /\ pc'[k] = "done" => Returns(k, Removed # {})]_vars
  /\ [][\A k \in Calls :
          StepOf(k, {"delete_by_url"}) =>
            /\ rows' \subseteq rows
            /\ \A r \in Removed : r.url = req'[k].url
            /\ pc'[k] = "done" => Returns(k, Removed # {})]_vars
  /\ [][\A k \in Calls :
          StepOf(k, {"get_by_ip", "get_by_url", "exists_by_ip", "exists_by_url"}) =>
            rows' = rows]_vars
  /\ [](\A k \in Calls :
          AloneAndLast(k) =>
            /\ op[k] = "delete_by_ip" => \A r \in rows : r.ip # req[k].ip
            /\ op[k] = "delete_by_url" => \A r \in rows : r.url # req[k].url)

C30_Witness ==
  \E k \in Calls :
    /\ op[k] = "delete_by_url" /\ AloneAndLast(k)
    /\ result[k].status = "ok" /\ result[k].value = TRUE
    /\ \E r \in rows : r.url = NULL

====
